---- MODULE Spec2Model ----
(***************************************************************************)
(* The Table component of src/src/components/ui/advanced-table.tsx as a    *)
(* state machine: its React state (data, itemsPerPage, currentPage,        *)
(* sortColumn, sortDirection, selectedRows, totalItems, loading), the      *)
(* query-parameter store it is bound to (the router's URL and the          *)
(* useSearchParams snapshot the last render saw), and the fetches that are *)
(* in flight.  One action per event handler, effect or promise callback.   *)
(***************************************************************************)
EXTENDS Integers, Sequences, FiniteSets, TLC

VARIABLES
    columns,        \* props.columns
    initialData,    \* props.data
    dynamic,        \* props.dynamic
    hasFetch,       \* props.onFetchData is supplied
    pc,             \* "init" before the first commit, "mounted" after it
    data, itemsPerPage, currentPage, sortColumn, sortDirection,
    selectedRows, totalItems, loading,          \* the useState cells
    searchParams,   \* the useSearchParams() value of the last render
    url,            \* the query string the router holds (last router.push / navigation)
    stickyOffsets,  \* the map computed by the last render
    inflight,       \* the onFetchData promises not yet settled, in issue order
    unseen,         \* navigations made since the component last rendered for the store
    lastOp,         \* history: the operation that made the last step (and the column clicked)
    lastResponse    \* history: the last successfully resolved response

vars == <<columns, initialData, dynamic, hasFetch, pc, data, itemsPerPage,
          currentPage, sortColumn, sortDirection, selectedRows, totalItems,
          loading, searchParams, url, stickyOffsets, inflight, unseen,
          lastOp, lastResponse>>

(***************************************************************************)
(* Bounds of the model.                                                    *)
(***************************************************************************)
MaxCols == 3        \* longest column sequence drawn for the offset calculator
MaxInflight == 2    \* fetches outstanding at once
MaxPage == 3        \* the "next page" button is not pressed on this page or beyond
MaxBack == 2        \* the "previous page" button is not pressed on page -MaxBack or below
MaxUnseen == 2      \* navigations the component has not yet re-rendered for
MaxSelected == 3    \* a row checkbox is not ticked once this many rows are selected

(***************************************************************************)
(* JavaScript values.                                                      *)
(***************************************************************************)
Null == "<null>"
Undefined == "<undefined>"

\* A query-parameter value is absent ({}) or present ({s}).
Absent == {}
Some(s) == {s}
The(o) == CHOOSE s \in o : TRUE

\* URLSearchParams.get: the value, or null when the key is absent.
Get(params, key) == IF params[key] = Absent THEN Null ELSE The(params[key])

\* Numeric parameters are strings of characters; Number() parses them.
Digits == <<"0", "1", "2", "3", "4", "5", "6", "7", "8", "9">>
IsDigit(ch) == \E d \in 1..10 : Digits[d] = ch
DigitVal(ch) == (CHOOSE d \in 1..10 : Digits[d] = ch) - 1

RECURSIVE DigitsValue(_)
DigitsValue(s) ==
    IF s = <<>> THEN 0
    ELSE 10 * DigitsValue(SubSeq(s, 1, Len(s) - 1)) + DigitVal(s[Len(s)])

AllDigits(s) == Len(s) > 0 /\ \A i \in 1..Len(s) : IsDigit(s[i])

NaN == [nan |-> TRUE, v |-> 0]
Num(n) == [nan |-> FALSE, v |-> n]

\* Number(x) for x null or a string of the characters used here: null and the
\* empty string give 0, an optionally signed run of digits gives its value,
\* anything else gives NaN.
Number(x) ==
    IF x = Null THEN Num(0)
    ELSE IF x = <<>> THEN Num(0)
    ELSE IF AllDigits(x) THEN Num(DigitsValue(x))
    ELSE IF x[1] = "-" /\ AllDigits(Tail(x)) THEN Num(0 - DigitsValue(Tail(x)))
    ELSE IF x[1] = "+" /\ AllDigits(Tail(x)) THEN Num(DigitsValue(Tail(x)))
    ELSE NaN

\* n || d : NaN and 0 are falsy.
OrDefault(n, d) == IF n.nan \/ n.v = 0 THEN d ELSE n.v

RECURSIVE NatToString(_)
NatToString(n) ==
    IF n < 10 THEN <<Digits[n + 1]>>
    ELSE NatToString(n \div 10) \o <<Digits[(n % 10) + 1]>>

\* Number.prototype.toString / template literal of an integer.
NumberToString(n) ==
    IF n < 0 THEN <<"-">> \o NatToString(0 - n) ELSE NatToString(n)

(***************************************************************************)
(* Offset calculator.                                                      *)
(***************************************************************************)
DefaultWidth == 150
CheckboxGutter == 30

\* column.width || 150
WidthOr150(column) ==
    IF column.width = Absent \/ The(column.width) = 0
    THEN DefaultWidth ELSE The(column.width)

\* acc[key] || 0
AccOr0(acc, key) == IF key \in DOMAIN acc THEN acc[key] ELSE 0

\* const prevOffset = index > 0 ? acc[columns[index - 1].key] || 0 : 0
PrevOffset(cols, acc, index) ==
    IF index > 1 THEN AccOr0(acc, cols[index - 1].key) ELSE 0

\* One step of the reduce: the accumulator after the column at `index`.
ReduceStep(cols, acc, index) ==
    IF ~cols[index].sticky THEN acc
    ELSE [k \in DOMAIN acc \cup {cols[index].key} |->
            IF k = cols[index].key
            THEN PrevOffset(cols, acc, index) + WidthOr150(cols[index])
            ELSE acc[k]]

RECURSIVE ReduceUpTo(_, _)
ReduceUpTo(cols, n) ==
    IF n = 0 THEN <<>>
    ELSE ReduceStep(cols, ReduceUpTo(cols, n - 1), n)

\* columns.reduce(..., {})
StickyOffsets(cols) == ReduceUpTo(cols, Len(cols))

\* TableRow / TableHeader: stickyOffsets[column.key] - (column.width || 150) + 30
LeftOffset(cols, offs, index) ==
    offs[cols[index].key] - WidthOr150(cols[index]) + CheckboxGutter

(***************************************************************************)
(* Rows, sorting and pagination.                                           *)
(***************************************************************************)
\* A row object: `ref` is its identity (rows are compared with ===), `id` and
\* `name` are its fields.
Row(ref, id, name) == [ref |-> ref, id |-> id, name |-> name]

\* a[sortColumn] < b[sortColumn]; a field the row lacks is undefined, and a
\* comparison with undefined is false.
Less(a, b, key) ==
    /\ key \in DOMAIN a
    /\ key \in DOMAIN b
    /\ a[key] < b[key]

\* The comparator handed to Array.prototype.sort.
Compare(a, b, key, direction) ==
    IF Less(a, b, key) THEN (IF direction = "asc" THEN 0 - 1 ELSE 1)
    ELSE IF Less(b, a, key) THEN (IF direction = "asc" THEN 1 ELSE 0 - 1)
    ELSE 0

\* Array.prototype.sort is stable: x goes after every element it does not
\* precede.
RECURSIVE InsertSorted(_, _, _, _)
InsertSorted(sorted, x, key, direction) ==
    IF sorted = <<>> THEN <<x>>
    ELSE IF Compare(sorted[Len(sorted)], x, key, direction) <= 0
         THEN Append(sorted, x)
         ELSE Append(InsertSorted(SubSeq(sorted, 1, Len(sorted) - 1), x,
                                  key, direction),
                     sorted[Len(sorted)])

RECURSIVE SortRows(_, _, _)
SortRows(rows, key, direction) ==
    IF rows = <<>> THEN <<>>
    ELSE InsertSorted(SortRows(SubSeq(rows, 1, Len(rows) - 1), key, direction),
                      rows[Len(rows)], key, direction)

\* SortedData without its test of the mode: a response is sorted again locally.
SortedDataInAnyMode(rows, isDynamic, column, direction) ==
    IF column = Null \/ direction = Null THEN rows
    ELSE SortRows(rows, column, direction)

\* const sortedData = useMemo(...)
SortedData(rows, isDynamic, column, direction) ==
    IF isDynamic \/ column = Null \/ direction = Null THEN rows
    ELSE SortRows(rows, column, direction)

Min(a, b) == IF a < b THEN a ELSE b
Max(a, b) == IF a > b THEN a ELSE b

\* Array.prototype.slice(start, end), negative indices counting from the end.
Slice(rows, start, end) ==
    LET len == Len(rows)
        from == IF start < 0 THEN Max(len + start, 0) ELSE Min(start, len)
        to == IF end < 0 THEN Max(len + end, 0) ELSE Min(end, len)
    IN  SubSeq(rows, from + 1, to)

\* A slice that counts pages from zero.
PaginatedDataFromPageZero(rows, isDynamic, column, direction, page, perPage) ==
    IF isDynamic THEN SortedData(rows, isDynamic, column, direction)
    ELSE Slice(SortedData(rows, isDynamic, column, direction),
               page * perPage, (page + 1) * perPage)

\* const paginatedData = dynamic ? sortedData : sortedData.slice(...)
PaginatedData(rows, isDynamic, column, direction, page, perPage) ==
    IF isDynamic THEN SortedData(rows, isDynamic, column, direction)
    ELSE Slice(SortedData(rows, isDynamic, column, direction),
               (page - 1) * perPage, page * perPage)

\* Math.ceil(totalItems / itemsPerPage), itemsPerPage # 0
TotalPages(total, perPage) ==
    IF perPage > 0 THEN 0 - ((0 - total) \div perPage)
    ELSE 0 - (total \div (0 - perPage))

(***************************************************************************)
(* The view-state and the query-parameter store.                           *)
(***************************************************************************)
\* The four parameters the component reads and writes, and "tab" for a
\* parameter of the host application that it copies along.
ParamKeys == {"page", "itemsPerPage", "sortColumn", "sortDirection", "tab"}
NoParams == [k \in ParamKeys |-> Absent]

DefaultItemsPerPage == 20
DefaultPage == 1
PageSizes == {10, 20, 30, 40, 50}

View == [page |-> currentPage, itemsPerPage |-> itemsPerPage,
         sortColumn |-> sortColumn, sortDirection |-> sortDirection]

\* DecodePage with the fallback 0 in place of 1.
DecodePageOrZero(params) == OrDefault(Number(Get(params, "page")), 0)

\* Number(searchParams.get("page")) || 1
DecodePage(params) == OrDefault(Number(Get(params, "page")), DefaultPage)

\* Number(searchParams.get("itemsPerPage")) || 20
DecodeItemsPerPage(params) ==
    OrDefault(Number(Get(params, "itemsPerPage")), DefaultItemsPerPage)

\* The values the inbound effect hands to the four setters.
Decode(params) ==
    [page |-> DecodePage(params),
     itemsPerPage |-> DecodeItemsPerPage(params),
     sortColumn |-> Get(params, "sortColumn"),
     sortDirection |-> Get(params, "sortDirection")]

\* updateSearchParams: a copy of the snapshot with each given key set, or
\* deleted when its value is null (Absent); the result is what router.push
\* receives.
MergeParams(snapshot, changes) ==
    [k \in ParamKeys |-> IF k \in DOMAIN changes THEN changes[k] ELSE snapshot[k]]

(***************************************************************************)
(* The fetch orchestrator.                                                 *)
(***************************************************************************)
\* if (!dynamic || !onFetchData) return;
FetchEnabled == dynamic /\ hasFetch

\* The argument of onFetchData.
FetchParams(view) ==
    [page |-> view.page, itemsPerPage |-> view.itemsPerPage,
     sortColumn |-> view.sortColumn,
     sortDirection |-> IF view.sortDirection = Null THEN Undefined
                       ELSE view.sortDirection]

\* DepsChanged with sortDirection left out of the dependency list.
DepsChangedButDirection(old, new) ==
    \/ old.page # new.page
    \/ old.itemsPerPage # new.itemsPerPage
    \/ old.sortColumn # new.sortColumn

\* The dependency list of fetchData: the callback, and with it the effect
\* that calls it, is renewed when one of these differs from the last render.
DepsChanged(old, new) ==
    \/ old.page # new.page
    \/ old.itemsPerPage # new.itemsPerPage
    \/ old.sortColumn # new.sortColumn
    \/ old.sortDirection # new.sortDirection

\* A call of fetchData that passes its guard: setLoading(true) and a pending
\* promise.  `overtaken` records that a later request has settled first.
Issue(pending, view) ==
    Append(pending, [params |-> FetchParams(view), overtaken |-> FALSE])

\* The re-render after the setters have run, with its effects: the view-state
\* becomes `new`, and fetchData runs when its dependencies changed.
Commit(new) ==
    LET issue == FetchEnabled /\ DepsChanged(View, new)
    IN  /\ currentPage' = new.page
        /\ itemsPerPage' = new.itemsPerPage
        /\ sortColumn' = new.sortColumn
        /\ sortDirection' = new.sortDirection
        /\ inflight' = IF issue THEN Issue(inflight, new) ELSE inflight
        /\ loading' = IF issue THEN TRUE ELSE loading
        /\ Len(inflight') <= MaxInflight

\* router.push: the store holds `next`; the component has not rendered for it.
Push(next) == url' = next

Props == <<columns, initialData, dynamic, hasFetch>>

(***************************************************************************)
(* Inputs: the props, the rows a response may carry, the query strings a   *)
(* navigation may bring.                                                   *)
(***************************************************************************)
TableColumns ==
    << [key |-> "id", sortable |-> TRUE, sticky |-> TRUE, width |-> Some(80)],
       [key |-> "name", sortable |-> TRUE, sticky |-> TRUE, width |-> Some(200)],
       [key |-> "department", sortable |-> FALSE, sticky |-> FALSE,
        width |-> Some(200)] >>

\* A table with one sortable column.
NarrowColumns ==
    << [key |-> "id", sortable |-> TRUE, sticky |-> TRUE, width |-> Some(80)],
       [key |-> "department", sortable |-> FALSE, sticky |-> FALSE,
        width |-> Some(200)] >>

InitialRows == << Row(1, 3, 1), Row(2, 1, 2), Row(3, 2, 3) >>
InitialDataChoices == { <<>>, InitialRows }

Responses ==
    { [data |-> << Row(4, 2, 1), Row(5, 3, 2), Row(6, 1, 3) >>, totalItems |-> 45],
      [data |-> << Row(7, 1, 1) >>, totalItems |-> 1] }

\* Row sequences for the static mode: none, fewer than a page, several with
\* equal keys, and 45 rows (more than two pages of 20).
RepeatedKeyRows ==
    << Row(1, 2, 2), Row(2, 1, 1), Row(3, 2, 1), Row(4, 1, 2), Row(5, 3, 1) >>
ManyRows == [i \in 1..45 |-> Row(i, (i * 7) % 45, i % 3)]
StaticRowChoices == { <<>>, InitialRows, RepeatedKeyRows }

\* Cell values of a row (row: T, T extends Record<string, any>): a plain value,
\* or an object { value, colSpan?, rowSpan? }.
Plain(v) == [plain |-> v]
CellDescriptor(v, colSpan, rowSpan) ==
    [value |-> v, colSpan |-> colSpan, rowSpan |-> rowSpan]

CellChoices ==
    { Plain("IT"),
      CellDescriptor("Engineering", Some(2), Absent),
      CellDescriptor("IT", Some(0), Absent),
      CellDescriptor("IT", Absent, Some(0)) }

SpanColumns ==
    << [key |-> "role", sortable |-> FALSE, sticky |-> FALSE, width |-> Absent],
       [key |-> "department", sortable |-> FALSE, sticky |-> FALSE,
        width |-> Absent] >>

SpanRow(ref) ==
    { [ref |-> ref, role |-> r, department |-> d] :
      r \in CellChoices, d \in CellChoices }

\* One row, or two.
SpanRowChoices ==
    { <<a>> : a \in SpanRow(1) }
    \cup { <<a, b>> : a \in SpanRow(1), b \in SpanRow(2) }

\* A query string with the given parameters and no others.
Query(changes) == MergeParams(NoParams, changes)

InboundURLs ==
    { NoParams,
      Query([page |-> Some(<<"2">>), itemsPerPage |-> Some(<<"1", "0">>),
             sortColumn |-> Some("id"), sortDirection |-> Some("desc")]),
      Query([page |-> Some(<<"-", "1">>), itemsPerPage |-> Some(<<"1", "5">>)]),
      Query([page |-> Some(<<"0">>), itemsPerPage |-> Some(<<"0">>),
             sortDirection |-> Some("desc")]),
      Query([page |-> Some(<<"a">>), itemsPerPage |-> Some(<<"x">>),
             sortColumn |-> Some("name")]) }

Op(name, arg) == [op |-> name, arg |-> arg]

(***************************************************************************)
(* The state after construction: the useState initial values, before the   *)
(* first commit.                                                           *)
(***************************************************************************)
InitWith(cols, rows, modes, collaborators, urls) ==
    /\ columns \in cols
    /\ initialData \in rows
    /\ dynamic \in modes
    /\ hasFetch \in collaborators
    /\ pc = "init"
    /\ data = initialData
    /\ itemsPerPage = DefaultItemsPerPage
    /\ currentPage = DefaultPage
    /\ sortColumn = Null
    /\ sortDirection = Null
    /\ selectedRows = <<>>
    /\ totalItems = Len(initialData)
    /\ loading = FALSE
    /\ url \in urls
    /\ searchParams = url
    /\ stickyOffsets = <<>>
    /\ inflight = <<>>
    /\ unseen = 0
    /\ lastOp = Op("init", 0)
    /\ lastResponse = [data |-> initialData, totalItems |-> Len(initialData),
                       stale |-> FALSE]

Init == InitWith({TableColumns}, InitialDataChoices, BOOLEAN, BOOLEAN, InboundURLs)

(***************************************************************************)
(* The first commit: the render computes the sticky offsets; the inbound   *)
(* effect decodes the query parameters into the view-state; the fetch      *)
(* effect calls fetchData, once with the initial view-state and again in   *)
(* the re-render when the decoded view-state differs from it.              *)
(***************************************************************************)
Mount ==
    /\ pc = "init"
    /\ pc' = "mounted"
    /\ stickyOffsets' = StickyOffsets(columns)
    /\ LET new == Decode(searchParams)
           first == IF FetchEnabled THEN Issue(inflight, View) ELSE inflight
           again == FetchEnabled /\ DepsChanged(View, new)
       IN  /\ currentPage' = new.page
           /\ itemsPerPage' = new.itemsPerPage
           /\ sortColumn' = new.sortColumn
           /\ sortDirection' = new.sortDirection
           /\ inflight' = IF again THEN Issue(first, new) ELSE first
           /\ loading' = IF FetchEnabled THEN TRUE ELSE loading
    /\ lastOp' = Op("mount", 0)
    /\ UNCHANGED <<Props, data, selectedRows, totalItems, searchParams, url,
                   unseen, lastResponse>>

\* What `unseen` becomes when router.push or a navigation leaves `next` in the store.
UnseenAfter(next) ==
    IF next = searchParams THEN 0
    ELSE IF next = url THEN unseen
    ELSE unseen + 1

\* updateSearchParams(changes)
UpdateSearchParams(changes) ==
    LET next == MergeParams(searchParams, changes)
    IN  /\ Push(next)
        /\ unseen' = UnseenAfter(next)

\* NewDirection without the cycle: every click sorts ascending.
NewDirectionAscending(column) == "asc"

\* newDirection of handleSort
NewDirection(column) ==
    IF sortColumn = column.key /\ sortDirection = "asc" THEN "desc" ELSE "asc"

\* A click on the header of column k: onClick={() => column.sortable && onSort(column)},
\* then handleSort.
HandleSort(k) ==
    /\ pc = "mounted"
    /\ unseen < MaxUnseen
    /\ k \in 1..Len(columns)
    /\ lastOp' = Op("sort", k)
    /\ IF ~columns[k].sortable
       THEN UNCHANGED <<currentPage, itemsPerPage, sortColumn, sortDirection,
                        inflight, loading, url, unseen>>
       ELSE /\ Commit([View EXCEPT !.sortColumn = columns[k].key,
                                   !.sortDirection = NewDirection(columns[k])])
            /\ UpdateSearchParams(
                 [sortColumn |-> Some(columns[k].key),
                  sortDirection |-> Some(NewDirection(columns[k])),
                  page |-> Some(<<"1">>)])
    /\ UNCHANGED <<Props, pc, data, selectedRows, totalItems, searchParams,
                   stickyOffsets, lastResponse>>

\* A clear-sort that leaves the page parameter alone.
HandleClearSortKeepingPage ==
    /\ pc = "mounted"
    /\ unseen < MaxUnseen
    /\ sortColumn # Null \/ sortDirection # Null
    /\ lastOp' = Op("clearSort", 0)
    /\ Commit([View EXCEPT !.sortColumn = Null, !.sortDirection = Null])
    /\ UpdateSearchParams([sortColumn |-> Absent, sortDirection |-> Absent])
    /\ UNCHANGED <<Props, pc, data, selectedRows, totalItems, searchParams,
                   stickyOffsets, lastResponse>>

\* The clear-sort button, rendered when (sortColumn || sortDirection).
HandleClearSort ==
    /\ pc = "mounted"
    /\ unseen < MaxUnseen
    /\ sortColumn # Null \/ sortDirection # Null
    /\ lastOp' = Op("clearSort", 0)
    /\ Commit([View EXCEPT !.sortColumn = Null, !.sortDirection = Null])
    /\ UpdateSearchParams([sortColumn |-> Absent, sortDirection |-> Absent,
                           page |-> Some(<<"1">>)])
    /\ UNCHANGED <<Props, pc, data, selectedRows, totalItems, searchParams,
                   stickyOffsets, lastResponse>>

\* handlePageChange(newPage)
HandlePageChange(newPage) ==
    /\ lastOp' = Op("page", 0)
    /\ Commit([View EXCEPT !.page = newPage])
    /\ UpdateSearchParams([page |-> Some(NumberToString(newPage))])
    /\ UNCHANGED <<Props, pc, data, selectedRows, totalItems, searchParams,
                   stickyOffsets, lastResponse>>

\* The previous-page button: disabled={currentPage === 1}.
PreviousPage ==
    /\ pc = "mounted"
    /\ unseen < MaxUnseen
    /\ currentPage # 1
    /\ currentPage > 0 - MaxBack
    /\ HandlePageChange(currentPage - 1)

\* The next-page button: disabled={currentPage === totalPages}.
NextPage ==
    /\ pc = "mounted"
    /\ unseen < MaxUnseen
    /\ currentPage # TotalPages(totalItems, itemsPerPage)
    /\ currentPage < MaxPage
    /\ HandlePageChange(currentPage + 1)

\* handleItemsPerPageChange(value), value one of the Select's items.
HandleItemsPerPageChange(value) ==
    /\ pc = "mounted"
    /\ unseen < MaxUnseen
    /\ lastOp' = Op("itemsPerPage", 0)
    /\ Commit([View EXCEPT !.itemsPerPage = Number(value).v, !.page = 1])
    /\ UpdateSearchParams([page |-> Some(<<"1">>), itemsPerPage |-> Some(value)])
    /\ UNCHANGED <<Props, pc, data, selectedRows, totalItems, searchParams,
                   stickyOffsets, lastResponse>>

\* A navigation made outside the component (a link, back/forward, an edited
\* address): the store holds the query string u.
Navigate(u) ==
    /\ pc = "mounted"
    /\ unseen < MaxUnseen
    /\ u # url
    /\ url' = u
    /\ unseen' = UnseenAfter(u)
    /\ lastOp' = Op("navigate", 0)
    /\ UNCHANGED <<Props, pc, data, itemsPerPage, currentPage, sortColumn,
                   sortDirection, selectedRows, totalItems, loading,
                   searchParams, stickyOffsets, inflight, lastResponse>>

\* The render for a changed store and its inbound effect: the four setters
\* receive the decoded parameters.
ObserveSearchParams ==
    /\ pc = "mounted"
    /\ url # searchParams
    /\ searchParams' = url
    /\ unseen' = 0
    /\ Commit(Decode(url))
    /\ lastOp' = Op("observe", 0)
    /\ UNCHANGED <<Props, pc, data, selectedRows, totalItems, url,
                   stickyOffsets, lastResponse>>

(***************************************************************************)
(* Selection.                                                              *)
(***************************************************************************)
\* The rows the body renders.
VisibleRows ==
    PaginatedData(data, dynamic, sortColumn, sortDirection, currentPage,
                  itemsPerPage)

\* TableRow: columns.map(...) returns one TableCell for every column, its
\* child row[column.key] (no column of the model has a cellRenderer).
TableRow(cols, row) ==
    [i \in 1..Len(cols) |->
        [key |-> cols[i].key,
         children |-> IF cols[i].key \in DOMAIN row THEN row[cols[i].key]
                      ELSE Plain(Undefined)]]

\* <tbody>: paginatedData.map((row, index) => <TableRow ... />)
TableBody == [r \in 1..Len(VisibleRows) |-> TableRow(columns, VisibleRows[r])]

\* prev.some((r) => r === row), selectedRows.includes(row)
Includes(rows, row) == \E i \in 1..Len(rows) : rows[i] = row

\* prev.filter((r) => r !== row)
Without(rows, row) == SelectSeq(rows, LAMBDA r : r # row)

\* The updater of toggleRowSelection.
ToggledRow(prev, row) ==
    IF Includes(prev, row) THEN Without(prev, row) ELSE Append(prev, row)

\* The updater of toggleAllRows.
ToggledAll(prev, rows) == IF Len(prev) = Len(rows) THEN <<>> ELSE rows

\* allSelected={selectedRows.length === data.length}
AllSelected == Len(selectedRows) = Len(data)

\* The checkbox of the i-th rendered row.
ToggleRowSelection(i) ==
    /\ pc = "mounted"
    /\ i \in 1..Len(VisibleRows)
    /\ Includes(selectedRows, VisibleRows[i]) \/ Len(selectedRows) < MaxSelected
    /\ selectedRows' = ToggledRow(selectedRows, VisibleRows[i])
    /\ lastOp' = Op("toggleRow", 0)
    /\ UNCHANGED <<Props, pc, data, itemsPerPage, currentPage, sortColumn,
                   sortDirection, totalItems, loading, searchParams, url,
                   stickyOffsets, inflight, unseen, lastResponse>>

\* The header checkbox.
ToggleAllRows ==
    /\ pc = "mounted"
    /\ selectedRows' = ToggledAll(selectedRows, data)
    /\ lastOp' = Op("toggleAll", 0)
    /\ UNCHANGED <<Props, pc, data, itemsPerPage, currentPage, sortColumn,
                   sortDirection, totalItems, loading, searchParams, url,
                   stickyOffsets, inflight, unseen, lastResponse>>

(***************************************************************************)
(* Settling of a fetch: the i-th outstanding promise resolves or rejects.  *)
(***************************************************************************)
\* The outstanding promises once the i-th has settled; those issued before it
\* have been overtaken.
Settled(pending, i) ==
    [j \in 1..(Len(pending) - 1) |->
        IF j < i THEN [pending[j] EXCEPT !.overtaken = TRUE] ELSE pending[j + 1]]

\* try { ... setData(result.data); setTotalItems(result.totalItems) }
\* finally { setLoading(false) }
Resolve(i, result) ==
    /\ pc = "mounted"
    /\ i \in 1..Len(inflight)
    /\ data' = result.data
    /\ totalItems' = result.totalItems
    /\ loading' = FALSE
    /\ inflight' = Settled(inflight, i)
    /\ lastResponse' = [data |-> result.data, totalItems |-> result.totalItems,
                        stale |-> inflight[i].overtaken]
    /\ lastOp' = Op("resolve", 0)
    /\ UNCHANGED <<Props, pc, itemsPerPage, currentPage, sortColumn,
                   sortDirection, selectedRows, searchParams, url,
                   stickyOffsets, unseen>>

\* Reject with a catch block that also empties the table.
RejectAndClear(i) ==
    /\ pc = "mounted"
    /\ i \in 1..Len(inflight)
    /\ loading' = FALSE
    /\ data' = <<>>
    /\ totalItems' = 0
    /\ inflight' = Settled(inflight, i)
    /\ lastOp' = Op("reject", 0)
    /\ UNCHANGED <<Props, pc, itemsPerPage, currentPage, sortColumn,
                   sortDirection, selectedRows, searchParams, url,
                   stickyOffsets, unseen, lastResponse>>

\* catch (error) { console.error(...) } finally { setLoading(false) }
Reject(i) ==
    /\ pc = "mounted"
    /\ i \in 1..Len(inflight)
    /\ loading' = FALSE
    /\ inflight' = Settled(inflight, i)
    /\ lastOp' = Op("reject", 0)
    /\ UNCHANGED <<Props, pc, data, itemsPerPage, currentPage, sortColumn,
                   sortDirection, selectedRows, totalItems, searchParams, url,
                   stickyOffsets, unseen, lastResponse>>

(***************************************************************************)
(* The component.                                                          *)
(***************************************************************************)
PageSizeItems == { NumberToString(n) : n \in PageSizes }

UserSorts ==
    \/ \E k \in 1..Len(columns) : HandleSort(k)
    \/ HandleClearSort

UserPages ==
    \/ PreviousPage
    \/ NextPage

UserResizes == \E value \in PageSizeItems : HandleItemsPerPageChange(value)

UserSelects ==
    \/ \E i \in 1..Len(VisibleRows) : ToggleRowSelection(i)
    \/ ToggleAllRows

Navigates == \E u \in InboundURLs : Navigate(u)

Settles ==
    \/ \E i \in 1..Len(inflight), result \in Responses : Resolve(i, result)
    \/ \E i \in 1..Len(inflight) : Reject(i)

\* Every operation of the component.
Next ==
    \/ Mount
    \/ UserSorts
    \/ UserPages
    \/ UserResizes
    \/ UserSelects
    \/ Navigates
    \/ ObserveSearchParams
    \/ Settles

Spec == Init /\ [][Next]_vars

(***************************************************************************)
(* The component in narrower environments.  Each specification keeps every *)
(* step the component takes by itself (the mount, the render for a changed *)
(* store, the settling of a fetch) and narrows what the user, the address  *)
(* bar and the host application do.                                        *)
(***************************************************************************)
\* View-state and store: no collaborator is supplied, so nothing is fetched;
\* the user sorts, pages and resizes, and navigations bring any query string.
InitView ==
    InitWith({TableColumns}, InitialDataChoices, BOOLEAN, {FALSE}, InboundURLs)

NextView ==
    \/ Mount
    \/ UserSorts
    \/ UserPages
    \/ UserResizes
    \/ Navigates
    \/ ObserveSearchParams

SpecView == InitView /\ [][NextView]_vars

\* Fetching: the page is opened on one of a few query strings; the user sorts
\* and pages while responses arrive in any order.
FetchURLs == { NoParams, Query([page |-> Some(<<"2">>)]) }

InitFetch ==
    InitWith({NarrowColumns}, {InitialRows}, BOOLEAN, BOOLEAN, FetchURLs)

NextFetch ==
    \/ Mount
    \/ UserSorts
    \/ UserPages
    \/ ObserveSearchParams
    \/ Settles

SpecFetch == InitFetch /\ [][NextFetch]_vars

\* Selection: the page is opened without query parameters; the user selects
\* rows and pages while responses replace the rows.
InitSelect ==
    InitWith({NarrowColumns}, {InitialRows}, BOOLEAN, {TRUE}, {NoParams})

NextSelect ==
    \/ Mount
    \/ UserSelects
    \/ UserPages
    \/ ObserveSearchParams
    \/ Settles

SpecSelect == InitSelect /\ [][NextSelect]_vars

\* Static pagination: the rows are the data prop; the page is opened with the
\* default page size or a smaller one, and the user sorts and pages.
PagingURLs ==
    { NoParams,
      Query([itemsPerPage |-> Some(<<"2">>)]),
      Query([itemsPerPage |-> Some(<<"1">>), sortColumn |-> Some("id"),
             sortDirection |-> Some("asc")]),
      Query([page |-> Some(<<"3">>), itemsPerPage |-> Some(<<"2">>),
             sortColumn |-> Some("name"), sortDirection |-> Some("desc")]) }

ManyRowsURLs == { NoParams, Query([itemsPerPage |-> Some(<<"1", "0">>)]) }

InitPaging ==
    \/ InitWith({TableColumns}, StaticRowChoices, {FALSE}, {FALSE}, PagingURLs)
    \/ InitWith({TableColumns}, {ManyRows}, {FALSE}, {FALSE}, ManyRowsURLs)

NextPaging ==
    \/ Mount
    \/ UserSorts
    \/ UserPages
    \/ ObserveSearchParams

SpecPaging == InitPaging /\ [][NextPaging]_vars

\* Rows with cell descriptors: the table is rendered and the user selects rows.
InitCells == InitWith({SpanColumns}, SpanRowChoices, {FALSE}, {FALSE}, {NoParams})

NextCells ==
    \/ Mount
    \/ UserSelects

SpecCells == InitCells /\ [][NextCells]_vars

\* Outbound updates: the page is opened with a parameter of the host
\* application in the query string; the user sorts, pages and resizes, and
\* may act again before the render for the changed store.
StoreURLs ==
    { Query([tab |-> Some("members")]),
      Query([tab |-> Some("members"), page |-> Some(<<"2">>),
             sortColumn |-> Some("id"), sortDirection |-> Some("asc")]) }

InitStore == InitWith({NarrowColumns}, {InitialRows}, {FALSE}, {FALSE}, StoreURLs)

NextStore ==
    \/ Mount
    \/ UserSorts
    \/ UserPages
    \/ UserResizes
    \/ ObserveSearchParams

SpecStore == InitStore /\ [][NextStore]_vars

\* The offset calculator: any column sequence, rendered once.
ColumnKeys == <<"id", "name", "email", "role", "department">>
WidthInputs == { Absent, Some(80), Some(200) }

ColumnsOfLength(n) ==
    { [i \in 1..n |-> [key |-> ColumnKeys[i], sortable |-> FALSE,
                       sticky |-> st[i], width |-> w[i]]] :
      st \in [1..n -> BOOLEAN], w \in [1..n -> WidthInputs] }

ColumnInputs == UNION { ColumnsOfLength(n) : n \in 0..MaxCols }

InitOffsets == InitWith(ColumnInputs, {<<>>}, {FALSE}, {FALSE}, {NoParams})

NextOffsets == Mount

SpecOffsets == InitOffsets /\ [][NextOffsets]_vars

(***************************************************************************)
(* Properties.                                                             *)
(***************************************************************************)
Mounted == pc = "mounted"

\* The width the specification gives a column: its width, 150 when none is given.
GivenWidth(column) ==
    IF column.width = Absent THEN 150 ELSE The(column.width)

RECURSIVE StickyWidthBefore(_, _)
\* The sum of the widths of the sticky columns strictly left of column i.
StickyWidthBefore(cols, i) ==
    IF i <= 1 THEN 0
    ELSE StickyWidthBefore(cols, i - 1)
         + (IF cols[i - 1].sticky THEN GivenWidth(cols[i - 1]) ELSE 0)

\* C1: every sticky column's offset (the left position the row gives it, less
\* the checkbox gutter) is the sum of the widths of all sticky columns strictly
\* to its left, and a non-sticky column has no entry in the offset map.
C1_OffsetIsStickyWidthBefore ==
    Mounted =>
        \A i \in 1..Len(columns) :
            IF columns[i].sticky
            THEN /\ columns[i].key \in DOMAIN stickyOffsets
                 /\ LeftOffset(columns, stickyOffsets, i) - CheckboxGutter
                        = StickyWidthBefore(columns, i)
            ELSE columns[i].key \notin DOMAIN stickyOffsets

\* C2: in dynamic mode the loading flag is true exactly while at least one
\* fetch is outstanding.
C2_LoadingWhileOutstanding ==
    (Mounted /\ dynamic) => (loading <=> Len(inflight) > 0)

\* C3: in dynamic mode the displayed rows and totalItems are those of the most
\* recently resolved response (the initial data if none has resolved), as the
\* response ordered them, with no local sort or slice, in whatever order the
\* requests were issued.
C3_LastResolvedResponseShown ==
    dynamic =>
        /\ VisibleRows = lastResponse.data
        /\ totalItems = lastResponse.totalItems

\* C3 witness: a response to a request that a later request had overtaken is
\* on display, unsorted under an active sort, on a page past the first.
C3_StaleResponseShown ==
    /\ dynamic
    /\ lastOp.op = "resolve"
    /\ lastResponse.stale
    /\ sortColumn = "id"
    /\ sortDirection = "asc"
    /\ currentPage > 1
    /\ Len(data) = 3
    /\ data # SortRows(data, "id", "asc")

\* C4: a failed fetch leaves data, totalItems and the view-state as they were,
\* clears the loading flag and issues no further request.
C4_FailureKeepsState ==
    [][lastOp'.op = "reject" =>
          /\ data' = data
          /\ totalItems' = totalItems
          /\ View' = View
          /\ loading' = FALSE
          /\ Len(inflight') = Len(inflight) - 1]_vars

\* C4 witness: a fetch has failed after an earlier response replaced the rows,
\* while another fetch is still outstanding.
C4_FailureAfterResponse ==
    /\ lastOp.op = "reject"
    /\ data # initialData
    /\ Len(inflight) > 0
    /\ ~loading

\* The request r carries the view-state v.
Carries(r, v) ==
    /\ r.params.page = v.page
    /\ r.params.itemsPerPage = v.itemsPerPage
    /\ r.params.sortColumn = v.sortColumn
    /\ r.params.sortDirection
         = (IF v.sortDirection = Null THEN Undefined ELSE v.sortDirection)

RowSet(rows) == { rows[i] : i \in 1..Len(rows) }

\* C6: toggleAll empties the selection when every visible row is selected (and
\* there is a visible row), and otherwise makes the selection exactly the set
\* of loaded rows.
C6_ToggleAllByVisibleRows ==
    [][lastOp'.op = "toggleAll" =>
          IF RowSet(VisibleRows) \subseteq RowSet(selectedRows)
          THEN VisibleRows # <<>> => selectedRows' = <<>>
          ELSE RowSet(selectedRows') = RowSet(data)]_vars

\* C7: page is at least 1 and itemsPerPage is one of 10, 20, 30, 40, 50.
C7_ViewStateInRange ==
    /\ currentPage >= 1
    /\ itemsPerPage \in PageSizes

\* C8: sortDirection is set only when sortColumn is set.
C8_DirectionOnlyWithColumn ==
    sortDirection # Null => sortColumn # Null

\* A present parameter that reads as a decimal integer, optionally signed.
IsNumeric(o) ==
    /\ o # Absent
    /\ \/ AllDigits(The(o))
       \/ /\ Len(The(o)) > 1
          /\ The(o)[1] = "-"
          /\ AllDigits(Tail(The(o)))

NumericValue(o) ==
    IF The(o)[1] = "-" THEN 0 - DigitsValue(Tail(The(o))) ELSE DigitsValue(The(o))

\* The view-state the store's parameters stand for, an absent or non-numeric
\* number standing for its default.
Decoded(params) ==
    [page |-> IF IsNumeric(params["page"])
              THEN NumericValue(params["page"]) ELSE 1,
     itemsPerPage |-> IF IsNumeric(params["itemsPerPage"])
                      THEN NumericValue(params["itemsPerPage"]) ELSE 20,
     sortColumn |-> IF params["sortColumn"] = Absent THEN Null
                    ELSE The(params["sortColumn"]),
     sortDirection |-> IF params["sortDirection"] = Absent THEN Null
                       ELSE The(params["sortDirection"])]

\* The same, a zero standing for the default as well.
DecodedZeroDefault(params) ==
    [Decoded(params) EXCEPT
        !.page = IF @ = 0 THEN 1 ELSE @,
        !.itemsPerPage = IF @ = 0 THEN 20 ELSE @]

\* C9 as stated: every render for the store (the first one and each one for a
\* changed store) overwrites the view-state with the decoded parameters, an
\* absent or non-numeric page decoding to 1 and itemsPerPage to 20.
C9_DecodedAsStated ==
    [][lastOp'.op \in {"mount", "observe"} => View' = Decoded(searchParams')]_vars

\* C9 amended: as C9, and a page or itemsPerPage of zero decodes to its
\* default too.
C9_DecodedZeroAsDefault ==
    [][lastOp'.op \in {"mount", "observe"} =>
          View' = DecodedZeroDefault(searchParams')]_vars

\* C9 witness: a store holding page=0 and itemsPerPage=0 has been decoded to
\* page 1 with 20 items per page.
C9_ZeroDecoded ==
    /\ lastOp.op = "observe"
    /\ searchParams["page"] = Some(<<"0">>)
    /\ searchParams["itemsPerPage"] = Some(<<"0">>)
    /\ currentPage = 1
    /\ itemsPerPage = 20

\* C10: a click on a sortable header sets sortColumn to that column, with
\* direction desc when it was the active column sorted asc and asc otherwise,
\* and writes the same two values to the store; a click on a non-sortable
\* header changes neither the view-state nor the store.
C10_SortClickCycles ==
    [][lastOp'.op = "sort" =>
          LET column == columns[lastOp'.arg]
          IN  IF column.sortable
              THEN /\ sortColumn' = column.key
                   /\ sortDirection' =
                        (IF sortColumn = column.key /\ sortDirection = "asc"
                         THEN "desc" ELSE "asc")
                   /\ url'["sortColumn"] = Some(sortColumn')
                   /\ url'["sortDirection"] = Some(sortDirection')
              ELSE /\ View' = View
                   /\ url' = url]_vars

\* C10 witness: a second click on the id header has turned asc into desc, in
\* the view-state and in the store.
C10_SecondClickDescends ==
    /\ lastOp = Op("sort", 1)
    /\ sortColumn = "id"
    /\ sortDirection = "desc"
    /\ url["sortColumn"] = Some("id")
    /\ url["sortDirection"] = Some("desc")

\* C11: a clear-sort click, whatever the view-state, leaves the store without
\* sortColumn and sortDirection and with page "1", and the view-state without
\* a sort; the render that processes this store change leaves the view-state
\* on page 1 with no sort.
C11_ClearSortResets ==
    [][/\ lastOp'.op = "clearSort" =>
            /\ url'["sortColumn"] = Absent
            /\ url'["sortDirection"] = Absent
            /\ url'["page"] = Some(<<"1">>)
            /\ sortColumn' = Null
            /\ sortDirection' = Null
       /\ (lastOp.op = "clearSort" /\ lastOp'.op = "observe") =>
            /\ currentPage' = 1
            /\ sortColumn' = Null
            /\ sortDirection' = Null
            /\ searchParams'["page"] = Some(<<"1">>)
            /\ searchParams'["sortColumn"] = Absent
            /\ searchParams'["sortDirection"] = Absent]_vars

\* C11 witness: the sort has been cleared on a page after the first: the store
\* holds page "1" and no sort while the view-state, not yet re-rendered for
\* the store, is still on the later page.
C11_ClearedOnLaterPage ==
    /\ lastOp.op = "clearSort"
    /\ currentPage > 1
    /\ searchParams["sortColumn"] # Absent
    /\ url["page"] = Some(<<"1">>)
    /\ url["sortColumn"] = Absent
    /\ url["sortDirection"] = Absent

\* The rows of s at the zero-based positions lo .. hi - 1 that s has.
RangeOf(s, lo, hi) ==
    LET from == Min(lo, Len(s))
        to == Min(hi, Len(s))
    IN  [i \in 1..(to - from) |-> s[from + i]]

RECURSIVE Concat(_, _)
\* The first n sequences of seqs, one after the other.
Concat(seqs, n) ==
    IF n = 0 THEN <<>> ELSE Concat(seqs, n - 1) \o seqs[n]

\* sorted holds the rows of rows, ordered by key in the direction, rows with
\* equal keys in their input order (ref numbers the rows of an input).
IsSortOf(sorted, rows, key, direction) ==
    /\ Len(sorted) = Len(rows)
    /\ RowSet(sorted) = RowSet(rows)
    /\ \A i \in 1..(Len(sorted) - 1) :
          /\ IF direction = "asc" THEN sorted[i][key] <= sorted[i + 1][key]
                                  ELSE sorted[i][key] >= sorted[i + 1][key]
          /\ sorted[i][key] = sorted[i + 1][key] =>
                sorted[i].ref < sorted[i + 1].ref

\* C12: in static mode the slice of page p is the range
\* [(p-1)*itemsPerPage, p*itemsPerPage) of the sorted rows clamped to their
\* length (empty past the data); the slices of pages 1..totalPages, with
\* totalPages = ceil(totalItems / itemsPerPage), concatenate to the sorted rows
\* (the input order when no sort is set); the data prop is not mutated.
C12_PagesPartitionSortedRows ==
    (Mounted /\ ~dynamic) =>
        \A sorted \in { SortedData(data, dynamic, sortColumn, sortDirection) },
           pages \in { TotalPages(totalItems, itemsPerPage) } :
        \A slices \in { [p \in 1..(pages + 1) |->
                           PaginatedData(data, dynamic, sortColumn,
                                         sortDirection, p, itemsPerPage)] } :
            /\ data = initialData
            /\ totalItems = Len(initialData)
            /\ pages * itemsPerPage >= totalItems
            /\ (pages - 1) * itemsPerPage < totalItems
            /\ IF sortColumn = Null \/ sortDirection = Null
               THEN sorted = initialData
               ELSE IsSortOf(sorted, initialData, sortColumn, sortDirection)
            /\ \A p \in 1..(pages + 1) :
                  slices[p] = RangeOf(sorted, (p - 1) * itemsPerPage,
                                      p * itemsPerPage)
            /\ slices[pages + 1] = <<>>
            /\ Concat(slices, pages) = sorted
            /\ currentPage \in 1..(pages + 1) => VisibleRows = slices[currentPage]

\* C12 witness: 45 sorted rows at 20 per page make 3 pages, and page 3 shows
\* the last 5 of the sorted rows.
C12_LastPageOfFortyFive ==
    /\ Mounted
    /\ ~dynamic
    /\ Len(data) = 45
    /\ itemsPerPage = 20
    /\ sortColumn = "id"
    /\ sortDirection = "desc"
    /\ TotalPages(totalItems, itemsPerPage) = 3
    /\ currentPage = 3
    /\ Len(VisibleRows) = 5
    /\ VisibleRows[5].id = 0

\* The cell value has a colSpan or a rowSpan of 0.
ZeroSpan(v) ==
    /\ "value" \in DOMAIN v
    /\ v.colSpan = Some(0) \/ v.rowSpan = Some(0)

\* The columns for which the row holds a zero-span cell.
ZeroSpanColumns(cols, row) ==
    { i \in 1..Len(cols) : cols[i].key \in DOMAIN row /\ ZeroSpan(row[cols[i].key]) }

\* C13: a rendered row has no cell for a column whose cell value has colSpan
\* or rowSpan 0: it has one cell for each of the other columns, so one cell
\* fewer than columns for each zero-span cell.
C13_ZeroSpanCellOmitted ==
    Mounted =>
        \A r \in 1..Len(VisibleRows) :
            /\ \A i \in 1..Len(TableBody[r]) :
                  ~ZeroSpan(TableBody[r][i].children)
            /\ Len(TableBody[r])
               = Len(columns) - Cardinality(ZeroSpanColumns(columns, VisibleRows[r]))

\* The parameters an outbound update names, with the values it gives them,
\* read from the view-state the handler has set.
NamedByUpdate ==
    IF lastOp'.op = "sort" /\ columns[lastOp'.arg].sortable
    THEN [sortColumn |-> Some(sortColumn'), sortDirection |-> Some(sortDirection'),
          page |-> Some(<<"1">>)]
    ELSE IF lastOp'.op = "clearSort"
    THEN [sortColumn |-> Absent, sortDirection |-> Absent, page |-> Some(<<"1">>)]
    ELSE IF lastOp'.op = "page"
    THEN [page |-> Some(NumberToString(currentPage'))]
    ELSE IF lastOp'.op = "itemsPerPage"
    THEN [page |-> Some(<<"1">>),
          itemsPerPage |-> Some(NumberToString(itemsPerPage'))]
    ELSE << >>

\* C14: after a sort, clear-sort, page or page-size update the store holds,
\* for each parameter the update names, the string of its new value (or no
\* value when it is unset), and for every other parameter the value the
\* store held before the update, also when the update is made before the
\* render for an earlier store change.
C14_UpdateMergesNamedKeys ==
    [][lastOp'.op \in {"sort", "clearSort", "page", "itemsPerPage"} =>
          \A k \in ParamKeys :
              url'[k] = IF k \in DOMAIN NamedByUpdate THEN NamedByUpdate[k]
                        ELSE url[k]]_vars

====
